---- MODULE Spec2Model ----
(***************************************************************************)
(* Model of the two programs of the LogFileAnalyzer repository:            *)
(*                                                                         *)
(*   LogFileAnalyzer/LogFileAnalyzer.cpp  main(argc, argv): validates the  *)
(*       argument count, opens the file, counts its lines with             *)
(*       std::getline and prints the total.                                *)
(*   LogGenerator/LogGenerator.cpp        main(): writes synthetic log     *)
(*       lines  timestamp|ip|user|action|status|<int>ms|details.           *)
(*                                                                         *)
(* The repository holds no record parser and no aggregator: the body of    *)
(* the analyzer's read loop is empty apart from lineCounter++ (line 74 is  *)
(* a comment announcing the parser).  Nothing here models them.            *)
(***************************************************************************)
EXTENDS Integers, Sequences, FiniteSets, TLC

VARIABLES
    \* ---- analyzer: inputs (fixed by Init) ----
    argc,          \* argument count, argv[0] included
    fileOpens,     \* whether std::ifstream logFile(path) can open the file
    fileLines,     \* the file's text, cut at its '\n' characters
    finalNewline,  \* whether the file's last character is '\n'
    \* ---- analyzer: program state ----
    pc,            \* position in main
    pos,           \* stream position: index of the next piece of fileLines
    currentLine,   \* std::string currentLine
    lineCounter,   \* long long lineCounter
    out,           \* what was written to std::cout
    err,           \* what was written to std::cerr
    exitCode,      \* <<>> while running, <<c>> once main returned c
    \* ---- generator: program state ----
    gpc,           \* position in the generator's main
    canWrite,      \* whether std::ofstream outputFile(name) can open
    genIndex,      \* loop variable i
    startTimestamp,\* long long startTimestamp
    outputFile,    \* lines written to sample.log, each a sequence of tokens
    gout,          \* what the generator wrote to std::cout
    gerr,          \* what the generator wrote to std::cerr
    gexit          \* <<>> while running, <<c>> once main returned c

avars == <<argc, fileOpens, fileLines, finalNewline, pc, pos, currentLine,
           lineCounter, out, err, exitCode>>
gvars == <<gpc, canWrite, genIndex, startTimestamp, outputFile, gout, gerr, gexit>>
vars  == <<argc, fileOpens, fileLines, finalNewline, pc, pos, currentLine,
           lineCounter, out, err, exitCode,
           gpc, canWrite, genIndex, startTimestamp, outputFile, gout, gerr, gexit>>

(***************************************************************************)
(* Bounds of the model.                                                    *)
(***************************************************************************)
\* Largest argument count tried (argv[0] is always present, so argc >= 1).
MaxArgc == 3
\* Largest number of '\n'-separated pieces of the analysed file.
MaxLines == 3
\* Stands for numberOfLinesToGenerate (100000 in the generator).
MaxGenLines == 2

(***************************************************************************)
(* The analyzer's inputs.                                                  *)
(***************************************************************************)
\* Line texts the analysed file is built from: a well-formed generator
\* line, lines with too few fields, a bad timestamp, a latency without its
\* suffix, and the empty line.  None holds a '\n'.
LinePool ==
    { "1672531200|10.0.0.5|user_alpha|LOGIN|SUCCESS|42ms|Details:N/A",
      "bad|line",
      "abc|10.0.0.5|u|LOGIN|SUCCESS|42ms|x",
      "1672531200|10.0.0.5|u|LOGIN|SUCCESS|42|x",
      "" }

RECURSIVE SeqsUpTo(_, _)
SeqsUpTo(S, n) ==
    IF n = 0 THEN { <<>> }
    ELSE LET shorter == SeqsUpTo(S, n - 1)
         IN  shorter \cup { Append(s, x) : s \in { t \in shorter : Len(t) = n - 1 }, x \in S }

\* The path argument, argv[1].
logFilePath == "sample.log"

(***************************************************************************)
(* Analyzer: main of LogFileAnalyzer.cpp.                                  *)
(***************************************************************************)
InitAnalyzer ==
    /\ argc \in 1..MaxArgc
    /\ fileOpens \in BOOLEAN
    /\ fileLines \in SeqsUpTo(LinePool, MaxLines)
    /\ finalNewline \in BOOLEAN
    \* an empty text has no last character
    /\ (fileLines = <<>> => ~finalNewline)
    /\ pc = "args"
    /\ pos = 1
    /\ currentLine = ""
    /\ lineCounter = 0
    /\ out = <<>>
    /\ err = <<>>
    /\ exitCode = <<>>

\* if (argc != 2)
BadArgCount_lt == argc < 2
BadArgCount == argc # 2

\* argc != 2: two messages on std::cerr, return 1.
ArgsBad ==
    /\ pc = "args"
    /\ BadArgCount
    /\ err' = err \o << <<"Error: Incorrect number of arguments.">>,
                        <<"Usage: ", "argv[0]", " <path_to_log_file>">> >>
    /\ exitCode' = <<1>>
    /\ pc' = "done"
    /\ UNCHANGED <<argc, fileOpens, fileLines, finalNewline, pos, currentLine,
                   lineCounter, out>>
    /\ UNCHANGED gvars

\* argc == 2: logFilePath = argv[1], the three banner lines, then the open.
ArgsOk ==
    /\ pc = "args"
    /\ ~BadArgCount
    /\ out' = out \o << <<"Initializing Log File Analyzer...">>,
                        <<"------------------------------------">>,
                        <<"Target log file: ", logFilePath>> >>
    /\ pc' = "open"
    /\ UNCHANGED <<argc, fileOpens, fileLines, finalNewline, pos, currentLine,
                   lineCounter, err, exitCode>>
    /\ UNCHANGED gvars

\* std::ifstream logFile(logFilePath); !logFile.is_open(): message, return 1.
OpenFail ==
    /\ pc = "open"
    /\ ~fileOpens
    /\ err' = Append(err, <<"Fatal Error: Could not open the log file at: ", logFilePath>>)
    /\ exitCode' = <<1>>
    /\ pc' = "done"
    /\ UNCHANGED <<argc, fileOpens, fileLines, finalNewline, pos, currentLine,
                   lineCounter, out>>
    /\ UNCHANGED gvars

\* The file is open: message; currentLine and lineCounter = 0 are declared.
OpenOk ==
    /\ pc = "open"
    /\ fileOpens
    /\ out' = Append(out, <<"File opened successfully. Starting analysis...">>)
    /\ currentLine' = ""
    /\ lineCounter' = 0
    /\ pc' = "loop"
    /\ UNCHANGED <<argc, fileOpens, fileLines, finalNewline, pos, err, exitCode>>
    /\ UNCHANGED gvars

\* std::getline(logFile, currentLine) converts to true: a piece is left and
\* the extraction either took a character or met a '\n'.  At the end of
\* the text, or on an unterminated empty last piece, nothing is extracted:
\* failbit is set and the stream converts to false.
GetlineOk_stopOnShort ==
    /\ pos <= Len(fileLines)
    /\ ~(pos = Len(fileLines) /\ ~finalNewline /\ fileLines[pos] = "")
    /\ (pos > 1 => fileLines[pos - 1] # "bad|line")
GetlineOk ==
    /\ pos <= Len(fileLines)
    /\ ~(pos = Len(fileLines) /\ ~finalNewline /\ fileLines[pos] = "")

\* while (std::getline(logFile, currentLine)): a line was read.
ReadLine ==
    /\ pc = "loop"
    /\ GetlineOk
    /\ currentLine' = fileLines[pos]
    /\ pos' = pos + 1
    /\ pc' = "count"
    /\ UNCHANGED <<argc, fileOpens, fileLines, finalNewline, lineCounter, out, err,
                   exitCode>>
    /\ UNCHANGED gvars

\* lineCounter++
NextLineCounter_skipBlank == IF currentLine = "" THEN lineCounter ELSE lineCounter + 1
NextLineCounter == lineCounter + 1

CountLine ==
    /\ pc = "count"
    /\ lineCounter' = NextLineCounter
    /\ pc' = "body"
    /\ UNCHANGED <<argc, fileOpens, fileLines, finalNewline, pos, currentLine, out, err,
                   exitCode>>
    /\ UNCHANGED gvars

\* The rest of the loop body, where the line is to be processed: empty.
ProcessLine ==
    /\ pc = "body"
    /\ pc' = "loop"
    /\ UNCHANGED <<argc, fileOpens, fileLines, finalNewline, pos, currentLine,
                   lineCounter, out, err, exitCode>>
    /\ UNCHANGED gvars

\* The getline fails: the loop ends, the totals are printed, return 0.
Finish ==
    /\ pc = "loop"
    /\ ~GetlineOk
    /\ out' = out \o << <<"Analysis finished.">>,
                        <<"Total lines processed: ", lineCounter>>,
                        <<"------------------------------------">> >>
    /\ exitCode' = <<0>>
    /\ pc' = "done"
    \* getline erases currentLine before it extracts, unless the read before
    \* already met the end of the text (eofbit: the sentry fails first).
    /\ currentLine' = IF pos > Len(fileLines) /\ fileLines # <<>> /\ ~finalNewline
                         THEN currentLine ELSE ""
    /\ UNCHANGED <<argc, fileOpens, fileLines, finalNewline, pos, lineCounter, err>>
    /\ UNCHANGED gvars

AnalyzerNext ==
    \/ ArgsBad
    \/ ArgsOk
    \/ OpenFail
    \/ OpenOk
    \/ ReadLine
    \/ CountLine
    \/ ProcessLine
    \/ Finish

(***************************************************************************)
(* Generator: main of LogGenerator.cpp.                                    *)
(***************************************************************************)
\* long long startTimestamp = 1672531200
InitialTimestamp == 1672531200

\* The data pools.  actions and statuses are the program's; the others are
\* cut to the first entries of the program's vectors, and the numeric
\* distributions to their end points, to keep the state space small.
ip_addresses == << "203.0.113.89" >>
user_ids == << "user_alpha" >>
actions == << "LOGIN", "LOGOUT", "TRADE_EXECUTE", "DATA_QUERY", "ORDER_CANCEL",
              "FAILED_LOGIN" >>
statuses == << "SUCCESS", "FAILURE", "PENDING" >>
trade_symbols == << "AAPL" >>
\* uniform_int_distribution<>(1, 5)
TimeIncrements == {1, 5}
\* uniform_int_distribution<>(5, 250)
Latencies == {5, 250}
\* uniform_int_distribution<>(10, 500)
Quantities == {10}
\* uniform_real_distribution<>(100.0, 5000.0) under std::fixed, setprecision(2)
Prices == {"100.00"}

\* getRandomElement(vec, gen): any element of vec.
getRandomElement(vec) == { vec[k] : k \in DOMAIN vec }

\* (action == "FAILED_LOGIN") ? "FAILURE" : getRandomElement(statuses, ...)
StatusChoices_unforced(action) == getRandomElement(statuses)
StatusChoices(action) ==
    IF action = "FAILED_LOGIN" THEN {"FAILURE"} ELSE getRandomElement(statuses)

\* The context-specific details written after the sixth '|'.
DetailChoices(action) ==
    IF action = "TRADE_EXECUTE"
    THEN { <<"Symbol:", s, ",Quantity:", q, ",Price:", p>> :
               s \in getRandomElement(trade_symbols), q \in Quantities, p \in Prices }
    ELSE IF action = "FAILED_LOGIN"
    THEN { <<"ErrorCode:401_UNAUTHORIZED">> }
    ELSE { <<"Details:N/A">> }

\* The tokens one iteration streams into outputFile, in order.
LogLine(ts, ip, user, action, status, latency, details) ==
    <<ts, "|", ip, "|", user, "|", action, "|", status, "|", latency, "ms|">>
        \o details \o <<"\n">>

InitGenerator ==
    /\ gpc = "open"
    /\ canWrite \in BOOLEAN
    /\ genIndex = 0
    /\ startTimestamp = InitialTimestamp
    /\ outputFile = <<>>
    /\ gout = <<>>
    /\ gerr = <<>>
    /\ gexit = <<>>

\* std::ofstream outputFile(outputFilename) is not open: message, return 1.
GenOpenFail ==
    /\ gpc = "open"
    /\ ~canWrite
    /\ gerr' = Append(gerr, <<"Error: Could not open file for writing: ", "sample.log">>)
    /\ gexit' = <<1>>
    /\ gpc' = "done"
    /\ UNCHANGED <<canWrite, genIndex, startTimestamp, outputFile, gout>>
    /\ UNCHANGED avars

GenOpenOk ==
    /\ gpc = "open"
    /\ canWrite
    /\ gpc' = "loop"
    /\ UNCHANGED <<canWrite, genIndex, startTimestamp, outputFile, gout, gerr, gexit>>
    /\ UNCHANGED avars

\* One iteration of for (i = 0; i < numberOfLinesToGenerate; ++i).
GenWriteLine ==
    /\ gpc = "loop"
    /\ genIndex < MaxGenLines
    /\ \E inc \in TimeIncrements, ip \in getRandomElement(ip_addresses),
          user \in getRandomElement(user_ids), action \in getRandomElement(actions),
          latency \in Latencies :
         \E status \in StatusChoices(action), details \in DetailChoices(action) :
            /\ startTimestamp' = startTimestamp + inc
            /\ outputFile' = Append(outputFile,
                                LogLine(startTimestamp + inc, ip, user, action, status,
                                        latency, details))
    /\ genIndex' = genIndex + 1
    /\ UNCHANGED <<gpc, canWrite, gout, gerr, gexit>>
    /\ UNCHANGED avars

\* The loop is over: close, report, return 0.
GenFinish ==
    /\ gpc = "loop"
    /\ ~(genIndex < MaxGenLines)
    /\ gout' = Append(gout, <<"Successfully generated ", MaxGenLines, " lines in '",
                              "sample.log", "'">>)
    /\ gexit' = <<0>>
    /\ gpc' = "done"
    /\ UNCHANGED <<canWrite, genIndex, startTimestamp, outputFile, gerr>>
    /\ UNCHANGED avars

GeneratorNext ==
    \/ GenOpenFail
    \/ GenOpenOk
    \/ GenWriteLine
    \/ GenFinish

(***************************************************************************)
(* Specifications.  The two programs are separate processes: each is       *)
(* checked with the other one at rest in its initial state.                *)
(***************************************************************************)
GeneratorAtRest ==
    /\ gpc = "open"
    /\ canWrite = TRUE
    /\ genIndex = 0
    /\ startTimestamp = InitialTimestamp
    /\ outputFile = <<>>
    /\ gout = <<>>
    /\ gerr = <<>>
    /\ gexit = <<>>

AnalyzerAtRest ==
    /\ argc = 2
    /\ fileOpens = TRUE
    /\ fileLines = <<>>
    /\ finalNewline = FALSE
    /\ pc = "args"
    /\ pos = 1
    /\ currentLine = ""
    /\ lineCounter = 0
    /\ out = <<>>
    /\ err = <<>>
    /\ exitCode = <<>>

Init == InitAnalyzer /\ GeneratorAtRest
Next == AnalyzerNext
\* The analyzer.
Spec == Init /\ [][Next]_vars
\* The analyzer as a running process: a step that can be taken is taken.
LiveSpec == Init /\ [][Next]_vars /\ WF_vars(Next)

GenInit == InitGenerator /\ AnalyzerAtRest
GenNext == GeneratorNext
\* The generator.
GenSpec == GenInit /\ [][GenNext]_vars

(***************************************************************************)
(* Properties.                                                             *)
(***************************************************************************)
\* The number of lines of the analysed text: its pieces, less an empty
\* piece after the last '\n' (which holds no character at all).
FileLineCount ==
    IF fileLines # <<>> /\ ~finalNewline /\ fileLines[Len(fileLines)] = ""
    THEN Len(fileLines) - 1
    ELSE Len(fileLines)

\* Lines a record parser would reject: too few fields, a timestamp that is
\* no number, a latency without "ms"; the blank line has one field.
Malformed(line) ==
    line \in { "bad|line",
               "abc|10.0.0.5|u|LOGIN|SUCCESS|42ms|x",
               "1672531200|10.0.0.5|u|LOGIN|SUCCESS|42|x",
               "" }

TotalPrinted(n) == \E k \in DOMAIN out : out[k] = <<"Total lines processed: ", n>>
SomeTotalPrinted == \E k \in DOMAIN out : out[k][1] = "Total lines processed: "

\* C6: a malformed line never aborts the run.  While a malformed line is
\* being read, counted or processed nothing is written, main does not
\* return and only the line counter moves; a run that entered the read loop
\* ends with exit code 0, nothing on std::cerr and every line of the file
\* read, those after a malformed line included; and the run does end.
C6_AtEnd ==
    (pc = "done" /\ argc = 2 /\ fileOpens) =>
        /\ exitCode = <<0>>
        /\ err = <<>>
        /\ pos = FileLineCount + 1
        /\ TotalPrinted(FileLineCount)
C6_Step ==
    (\/ pc = "loop" /\ pc' = "count" /\ Malformed(currentLine')
     \/ pc \in {"count", "body"} /\ Malformed(currentLine)) =>
        /\ pc' # "done"
        /\ exitCode' = <<>>
        /\ out' = out
        /\ err' = err
        /\ lineCounter' \in {lineCounter, lineCounter + 1}
C8_SinglePathArgument ==
    /\ (pc \in {"loop", "count", "body"} => argc = 2 /\ fileOpens)
    /\ (pc = "open" => argc = 2)
    /\ (exitCode # <<>> <=> pc = "done")
    /\ (pc = "done" =>
          IF argc # 2 \/ ~fileOpens
          THEN /\ exitCode = <<1>>
               /\ pos = 1
               /\ lineCounter = 0
               /\ currentLine = ""
               /\ ~SomeTotalPrinted
               /\ err # <<>>
          ELSE /\ exitCode = <<0>>
               /\ SomeTotalPrinted)
\* One path is given, the file holds lines, and it cannot be opened.
C8_Witness ==
    /\ pc = "done"
    /\ argc = 2
    /\ ~fileOpens
    /\ Len(fileLines) >= 2
    /\ exitCode = <<1>>

\* C9: the line counter is 1-based and gap-free.  It is 0 until the first
\* line is read, grows only by one and only at lineCounter++, equals k when
\* the k-th line is processed, and the loop ends with the printed total
\* equal to the number of lines of the file.
C9_Counter ==
    /\ (pc \in {"args", "open"} => lineCounter = 0 /\ pos = 1)
    /\ (pc = "loop" => lineCounter = pos - 1)
    /\ (pc = "count" => lineCounter = pos - 2)
    /\ (pc = "body" => /\ lineCounter = pos - 1
                       /\ lineCounter >= 1
                       /\ currentLine = fileLines[lineCounter])
    /\ (pc = "done" /\ exitCode = <<0>> =>
            /\ lineCounter = FileLineCount
            /\ TotalPrinted(FileLineCount))
C9_Step ==
    \/ lineCounter' = lineCounter
    \/ lineCounter' = lineCounter + 1 /\ pc = "count" /\ pc' = "body"
C9_LineCounterGapFree ==
    /\ []C9_Counter
    /\ [][C9_Step]_vars
    /\ (pc = "loop" ~> pc = "done")
\* The second line, a blank one, is being processed with the counter at 2.
C9_Witness ==
    /\ pc = "body"
    /\ lineCounter = 2
    /\ currentLine = ""
    /\ Len(fileLines) = 3

\* The fields of a written line: the tokens between the '|' tokens.
LineAction(line) == line[7]
LineStatus(line) == line[9]
LineDetails(line) == SubSeq(line, 13, Len(line) - 1)

\* C10: every written line whose action is FAILED_LOGIN has status FAILURE
\* and details ErrorCode:401_UNAUTHORIZED; for every other action each of
\* the three statuses can be drawn.
C10_FailedLoginIsFailure ==
    /\ \A k \in DOMAIN outputFile :
          LineAction(outputFile[k]) = "FAILED_LOGIN" =>
              /\ LineStatus(outputFile[k]) = "FAILURE"
              /\ LineDetails(outputFile[k]) = <<"ErrorCode:401_UNAUTHORIZED">>
    /\ \A a \in getRandomElement(actions) \ {"FAILED_LOGIN"} :
          StatusChoices(a) = {"SUCCESS", "FAILURE", "PENDING"}
\* A FAILED_LOGIN line was written, and a LOGIN line with status PENDING.
C10_Witness ==
    /\ Len(outputFile) = 2
    /\ LineAction(outputFile[1]) = "FAILED_LOGIN"
    /\ LineAction(outputFile[2]) = "LOGIN"
    /\ LineStatus(outputFile[2]) = "PENDING"

====
